---------------------------- MODULE Spec2Model ----------------------------
(***************************************************************************)
(* kube-restarter: one reconciliation pass (package controller) and the    *)
(* registry digest lookup it drives (package registry).                    *)
(*                                                                         *)
(* Go strings are sequences of one-character strings, so that the string   *)
(* functions of the code (strings.Contains, Split, Index, LastIndex) are   *)
(* computed and not assumed.                                               *)
(***************************************************************************)
EXTENDS Integers, Sequences, FiniteSets, TLC

(***************************************************************************)
(* Bounds of the model.                                                    *)
(***************************************************************************)
\* longest generated image reference prefix (characters)
MaxRefLen == 3
\* most deployments a listing returns
MaxDeploys == 2
\* pods of the cluster; a pod listing returns each at most once
MaxPods == 2
\* most containers of a pod
MaxContainers == 2
\* most image pull secret references of a pod
MaxSecretRefs == 1
\* most calls of Reconcile main makes
MaxPasses == 2
\* most secrets given to setAuth on its own
MaxAuthSecrets == 2
\* most entries of one secret's "auths" object
MaxAuthEntries == 2

(***************************************************************************)
(* package strings                                                         *)
(***************************************************************************)
\* whether sub occurs in s at position i (1-based)
OccursAt(s, sub, i) ==
    /\ i >= 1
    /\ i + Len(sub) - 1 <= Len(s)
    /\ SubSeq(s, i, i + Len(sub) - 1) = sub

\* strings.Index, 1-based; 0 where Go returns -1
Index(s, sub) ==
    LET hits == {i \in 1..(Len(s) + 1) : OccursAt(s, sub, i)}
    IN IF hits = {} THEN 0 ELSE CHOOSE i \in hits : \A j \in hits : i <= j

\* strings.LastIndex, 1-based; 0 where Go returns -1
LastIndex(s, sub) ==
    LET hits == {i \in 1..(Len(s) + 1) : OccursAt(s, sub, i)}
    IN IF hits = {} THEN 0 ELSE CHOOSE i \in hits : \A j \in hits : i >= j

\* strings.Contains
Contains(s, sub) == Index(s, sub) # 0

\* strings.Split(s, sep) for a non-empty separator: always at least one part
RECURSIVE Split(_, _)
Split(s, sep) ==
    LET i == Index(s, sep)
    IN IF i = 0 THEN <<s>>
       ELSE <<SubSeq(s, 1, i - 1)>> \o Split(SubSeq(s, i + Len(sep), Len(s)), sep)

\* strings.SplitN(s, sep, 2): cut at the first separator only
SplitN2(s, sep) ==
    LET i == Index(s, sep)
    IN IF i = 0 THEN <<s>>
       ELSE <<SubSeq(s, 1, i - 1), SubSeq(s, i + Len(sep), Len(s))>>

(***************************************************************************)
(* String literals of the code.                                            *)
(***************************************************************************)
latest == <<"l", "a", "t", "e", "s", "t">>
localhost == <<"l", "o", "c", "a", "l", "h", "o", "s", "t">>
sha256Prefix == <<"s", "h", "a", "2", "5", "6", ":">>
dockerHub == <<"r", "e", "g", "i", "s", "t", "r", "y", "-", "1", ".",
               "d", "o", "c", "k", "e", "r", ".", "i", "o">>
libraryPrefix == <<"l", "i", "b", "r", "a", "r", "y", "/">>

(***************************************************************************)
(* package controller: the applicability test on the image, and the        *)
(* running digest.                                                         *)
(***************************************************************************)
isLatestTag(image) ==
    IF Contains(image, <<"@">>) THEN FALSE
    ELSE LET parts == Split(image, <<":">>)
         IN IF Len(parts) = 1 THEN TRUE ELSE parts[Len(parts)] = latest

extractDigest(imageID) ==
    LET idx == Index(imageID, sha256Prefix)
    IN IF idx # 0 THEN SubSeq(imageID, idx, Len(imageID)) ELSE <<>>

(***************************************************************************)
(* package registry: parseImageRef                                         *)
(***************************************************************************)
\* a variant that takes whatever follows the last ':' as the tag
parseImageRef_TagAfterLastColon(image) ==
    LET atIdx == Index(image, <<"@">>)
        ref0 == IF atIdx # 0 THEN SubSeq(image, 1, atIdx - 1) ELSE image
        colonIdx == LastIndex(ref0, <<":">>)
        tag == IF colonIdx # 0 THEN SubSeq(ref0, colonIdx + 1, Len(ref0))
               ELSE latest
        ref == IF colonIdx # 0 THEN SubSeq(ref0, 1, colonIdx - 1) ELSE ref0
        parts == SplitN2(ref, <<"/">>)
    IN IF Len(parts) = 1
       THEN [registry |-> dockerHub, repo |-> libraryPrefix \o parts[1], tag |-> tag]
       ELSE IF Contains(parts[1], <<".">>) \/ Contains(parts[1], <<":">>)
               \/ parts[1] = localhost
            THEN [registry |-> parts[1], repo |-> parts[2], tag |-> tag]
            ELSE [registry |-> dockerHub, repo |-> ref, tag |-> tag]

parseImageRef(image) ==
    LET atIdx == Index(image, <<"@">>)
        ref0 == IF atIdx # 0 THEN SubSeq(image, 1, atIdx - 1) ELSE image
        colonIdx == LastIndex(ref0, <<":">>)
        candidate == SubSeq(ref0, colonIdx + 1, Len(ref0))
        isTag == colonIdx # 0 /\ ~Contains(candidate, <<"/">>)
        tag == IF isTag THEN candidate ELSE latest
        ref == IF isTag THEN SubSeq(ref0, 1, colonIdx - 1) ELSE ref0
        parts == SplitN2(ref, <<"/">>)
    IN IF Len(parts) = 1
       THEN [registry |-> dockerHub, repo |-> libraryPrefix \o parts[1], tag |-> tag]
       ELSE IF Contains(parts[1], <<".">>) \/ Contains(parts[1], <<":">>)
               \/ parts[1] = localhost
            THEN [registry |-> parts[1], repo |-> parts[2], tag |-> tag]
            ELSE [registry |-> dockerHub, repo |-> ref, tag |-> tag]


\* net/url: a URL with an ASCII control character, or with a host whose port
\* is not a number, does not parse, and http.NewRequestWithContext fails
digits == {"0", "1", "2", "3", "4", "5", "6", "7", "8", "9"}

UrlParses(host, path) ==
    LET colonIdx == LastIndex(host, <<":">>)
        port == SubSeq(host, colonIdx + 1, Len(host))
    IN /\ ~Contains(host \o path, <<"\n">>)
       /\ colonIdx # 0 => \A k \in 1..Len(port) : port[k] \in digits

(***************************************************************************)
(* The cluster and the registry, as the pass reads them.  A list the code  *)
(* walks once is drawn element by element, when the loop reaches the       *)
(* element; a response is drawn when the request is issued.                *)
(***************************************************************************)
\* values of the annotation kube-restarter.io/enabled; NoAnnotation: no such key
NoAnnotation == "(no annotation)"
Annotations == {"true", "TRUE", "1", "", NoAnnotation}

\* deploy.Annotations[annotationKey]: the zero value for a missing key
AnnotationValue(d) == IF d.ann = NoAnnotation THEN "" ELSE d.ann

Deployments == [ann : Annotations, selectorOK : BOOLEAN]

PodNames == 1..MaxPods

\* the listings of pods: each pod of the cluster at most once, in the order
\* of the names, which is the order the API server lists in
PodListings ==
    {l \in UNION {[1..n -> PodNames] : n \in 0..MaxPods} :
        \A i, j \in 1..Len(l) : i < j => l[i] < l[j]}

Phases == {"Running", "Pending"}
Policies == {"Always", "IfNotPresent"}

\* image references of containers
Images == {
    <<"a">>,
    <<"a", ":">> \o latest,
    <<"a", ":", "v">>,
    <<"a", "@">> \o sha256Prefix \o <<"c">>,
    <<"h", ":", "5", "/", "a">>,
    <<"h", ":", "p", "/", "a", ":">> \o latest }

\* parseImageRef of each image a container can name, computed once
imageRef == [image \in Images |-> parseImageRef(image)]

Containers == [policy : Policies, image : Images]

digestA == sha256Prefix \o <<"a">>
digestB == sha256Prefix \o <<"b">>

\* Docker-Content-Digest of a response; <<>>: the header is missing
DigestHeaders == {<<>>, digestA, digestB}

\* ImageID of a container status
ImageIDs == {
    <<>>,
    <<"d", ":", "/", "/", "a", "@">> \o digestA,
    digestB }


\* HTTP status codes of a manifest response
Statuses == {200, 401, 404}

(***************************************************************************)
(* package registry: parseWWWAuth                                          *)
(***************************************************************************)
\* strings.TrimPrefix
TrimPrefix(s, prefix) ==
    IF OccursAt(s, prefix, 1) THEN SubSeq(s, Len(prefix) + 1, Len(s)) ELSE s

\* strings.TrimSpace, for the space character
RECURSIVE TrimSpace(_)
TrimSpace(s) ==
    IF s # <<>> /\ s[1] = " " THEN TrimSpace(Tail(s))
    ELSE IF s # <<>> /\ s[Len(s)] = " " THEN TrimSpace(SubSeq(s, 1, Len(s) - 1))
    ELSE s

\* strings.Trim(s, "\""): all leading and trailing quote characters
RECURSIVE TrimQuotes(_)
TrimQuotes(s) ==
    IF s # <<>> /\ s[1] = "\"" THEN TrimQuotes(Tail(s))
    ELSE IF s # <<>> /\ s[Len(s)] = "\"" THEN TrimQuotes(SubSeq(s, 1, Len(s) - 1))
    ELSE s

bearerUpper == <<"B", "e", "a", "r", "e", "r", " ">>
bearerLower == <<"b", "e", "a", "r", "e", "r", " ">>
realmKey == <<"r", "e", "a", "l", "m">>
serviceKey == <<"s", "e", "r", "v", "i", "c", "e">>
scopeKey == <<"s", "c", "o", "p", "e">>

\* the key="value" pairs of the header, in order
parseWWWAuthPairs(header) ==
    LET h == TrimPrefix(TrimPrefix(header, bearerUpper), bearerLower)
        parts == Split(h, <<",">>)
        kv(k) == SplitN2(TrimSpace(parts[k]), <<"=">>)
    IN [k \in {j \in 1..Len(parts) : Len(kv(j)) = 2} |->
            [key |-> kv(k)[1], value |-> TrimQuotes(kv(k)[2])]]

\* parseWWWAuth(header)[key]: the last pair with the key wins, as in a map
\* assignment; <<>> (the zero value) when there is none
parseWWWAuth(header, key) ==
    LET pairs == parseWWWAuthPairs(header)
        hits == {k \in DOMAIN pairs : pairs[k].key = key}
    IN IF hits = {} THEN <<>>
       ELSE pairs[CHOOSE k \in hits : \A j \in hits : k >= j].value

\* Www-Authenticate headers of a response; <<>>: the header is missing
Challenges == {
    <<>>,
    bearerUpper \o realmKey \o <<"=", "\"", "t", "\"">>,
    bearerUpper \o realmKey \o <<"=", "\"", "t", "\"", ",">>
        \o serviceKey \o <<"=", "\"", "s", "\"">>,
    bearerUpper \o serviceKey \o <<"=", "\"", "s", "\"">> }

\* the token URL fetchBearerToken builds
tokenURL(header) ==
    LET realm == parseWWWAuth(header, realmKey)
        service == parseWWWAuth(header, serviceKey)
        scope == parseWWWAuth(header, scopeKey)
        u1 == IF service # <<>>
              THEN realm \o <<"?">> \o serviceKey \o <<"=">> \o service ELSE realm
        sep == IF service # <<>> THEN <<"&">> ELSE <<"?">>
    IN IF scope # <<>> THEN u1 \o sep \o scopeKey \o <<"=">> \o scope ELSE u1

\* the realm and the token URL of each Www-Authenticate header a response
\* can carry, computed once
challengeRealm == [header \in Challenges |-> parseWWWAuth(header, realmKey)]
challengeTokenURL == [header \in Challenges |-> tokenURL(header)]

\* bodies of a token response, as json.Unmarshal reads them
TokenBodies == [json : {FALSE}, token : {""}, access_token : {""}]
    \cup [json : {TRUE}, token : {"", "t1"}, access_token : {"", "t2"}]

\* a variant that prefers access_token
tokenOf_AccessTokenFirst(body) ==
    IF ~body.json THEN ""
    ELSE IF body.access_token # "" THEN body.access_token
    ELSE IF body.token # "" THEN body.token
    ELSE ""

\* the token fetchBearerToken returns from a parsed body; "": an error
tokenOf(body) ==
    IF ~body.json THEN ""
    ELSE IF body.token # "" THEN body.token
    ELSE IF body.access_token # "" THEN body.access_token
    ELSE ""


\* manifest responses; only a 401 carries a challenge
Responses ==
    {r \in [status : Statuses, digest : DigestHeaders, challenge : Challenges] :
        /\ r.status # 401 => r.challenge = <<>>
        /\ r.status = 401 => r.digest = <<>>
        /\ r.status = 404 => r.digest # digestB}

(***************************************************************************)
(* package registry: setAuth                                               *)
(***************************************************************************)
dockerConfigJsonType == "kubernetes.io/dockerconfigjson"
opaqueType == "Opaque"

\* base64.StdEncoding.DecodeString on the auth values used here; a value that
\* is not in the table is not base64
Base64Table ==
    [e \in {"", "dXA=", "dTpw", "dTpwOnE="} |->
        CASE e = "" -> <<>>
          [] e = "dXA=" -> <<"u", "p">>
          [] e = "dTpw" -> <<"u", ":", "p">>
          [] e = "dTpwOnE=" -> <<"u", ":", "p", ":", "q">>]
AuthValues == {"", "%", "dXA=", "dTpw", "dTpwOnE="}
IsBase64(e) == e \in DOMAIN Base64Table
DecodeString(e) == Base64Table[e]

\* host keys of an "auths" object
AuthHosts == {<<"h">>, <<"h", ":", "5">>, <<"x">>}
AuthEntries == [host : AuthHosts, auth : AuthValues]

\* cfg.Auths: a JSON object, so no two entries share a host key
AuthMaps ==
    {m \in SUBSET AuthEntries :
        /\ Cardinality(m) <= MaxAuthEntries
        /\ \A e1 \in m, e2 \in m : e1.host = e2.host => e1 = e2}

\* a secret: its type, whether Data holds the .dockerconfigjson key, whether
\* the value is JSON, and the "auths" object
NoAuths == {}
Secrets ==
    [type : {opaqueType}, hasKey : {TRUE}, json : {TRUE}, auths : {NoAuths}]
    \cup [type : {dockerConfigJsonType}, hasKey : {FALSE}, json : {FALSE},
          auths : {NoAuths}]
    \cup [type : {dockerConfigJsonType}, hasKey : {TRUE}, json : {FALSE},
          auths : {NoAuths}]
    \cup [type : {dockerConfigJsonType}, hasKey : {TRUE}, json : {TRUE},
          auths : AuthMaps]

\* the secret a pass reads: credentials for the default registry
PassSecrets ==
    {[type |-> dockerConfigJsonType, hasKey |-> TRUE, json |-> TRUE,
      auths |-> {[host |-> dockerHub, auth |-> "dTpw"]}]}

\* req.SetBasicAuth(parts[0], parts[1])
BasicAuth(parts) == [set |-> TRUE, user |-> parts[1], password |-> parts[2]]

\* a variant that does not test the host key
EntryCredentials_AnyHost(entry, registryHost) ==
    IF entry.auth # ""
    THEN IF ~IsBase64(entry.auth) THEN {}
         ELSE LET parts == SplitN2(DecodeString(entry.auth), <<":">>)
              IN IF Len(parts) = 2 THEN {BasicAuth(parts)} ELSE {}
    ELSE {}

\* the body of the inner loop for one entry: the credentials it sets, if any
EntryCredentials(entry, registryHost) ==
    IF Contains(entry.host, registryHost) /\ entry.auth # ""
    THEN IF ~IsBase64(entry.auth) THEN {}
         ELSE LET parts == SplitN2(DecodeString(entry.auth), <<":">>)
              IN IF Len(parts) = 2 THEN {BasicAuth(parts)} ELSE {}
    ELSE {}

\* the body of the outer loop for one secret: the credentials its entries
\* can set.  Go ranges over a map in no fixed order, so when several entries
\* qualify each of them can be the one reached first.
SecretCredentials(secret, registryHost) ==
    IF secret.type # dockerConfigJsonType THEN {}
    ELSE IF ~secret.hasKey THEN {}
    ELSE IF ~secret.json THEN {}
    ELSE UNION {EntryCredentials(e, registryHost) : e \in secret.auths}

\* setAuth: the credentials the request can leave with; the first secret
\* with a qualifying entry decides, and without one the request is untouched
RECURSIVE setAuth(_, _)
setAuth(registryHost, pullSecrets) ==
    IF pullSecrets = <<>> THEN {[set |-> FALSE, user |-> <<>>, password |-> <<>>]}
    ELSE LET found == SecretCredentials(Head(pullSecrets), registryHost)
         IN IF found # {} THEN found
            ELSE setAuth(registryHost, Tail(pullSecrets))

(***************************************************************************)
(* State.                                                                  *)
(***************************************************************************)
VARIABLES
    pc,           \* the statement control is at
    ret,          \* what Reconcile returned: "none" (running), "nil", "error"
    nDeploys,     \* len(deployments.Items)
    di,           \* index of the deployment the outer loop is at (1-based)
    deploy,       \* deployments.Items[di]
    pods,         \* pods.Items, by pod name
    pi,           \* index of the pod the inner loop is at
    pod,          \* pods.Items[pi]: name, phase, len(Spec.Containers),
                  \* len(Status.ContainerStatuses)
    nRefs,        \* len(pods.Items[0].Spec.ImagePullSecrets)
    si,           \* index of the secret reference gatherPullSecrets is at
    pullSecrets,  \* the secrets gathered for the deployment
    ci,           \* index of the container shouldDeletePod is at
    container,    \* pod.Spec.Containers[ci]
    imageID,      \* pod.Status.ContainerStatuses[ci].ImageID, once read
    lookup,       \* what GetRemoteDigest returned for the container
    shouldDelete, \* what shouldDeletePod returned for the pod
    resp,         \* the manifest response GetRemoteDigest holds
    token,        \* the bearer token fetched
    grdLog,       \* the requests of the current GetRemoteDigest call, in order
    req,          \* the request the last step issued, if any
    deleted,      \* pods a delete request was issued for in this pass
    itemFailed,   \* a selector, pod listing or pod delete failed in this pass
    claimStale,   \* a container of the pod seen so far is stale by the
                  \* staleness rule of the specification
    compared,     \* what the digest comparisons of this pass found so far:
                  \* "none", "equal" (all equal), "different" (one differed)
    refIn,        \* image reference given to the string functions
    refOut,       \* their results
    pass,         \* main: the number of the Reconcile call, from 1
    tickReady,    \* main: ticker.C holds a tick (a channel of capacity one)
    ticksTaken,   \* main: ticks received from ticker.C so far
    authIn,       \* registry host and secrets given to setAuth
    authOut       \* the credentials setAuth put on the request

walkVars == <<ret, nDeploys, di, deploy, pods, pi, pod, nRefs, si, pullSecrets>>
sdpVars == <<ci, container, imageID, lookup, shouldDelete>>
grdVars == <<resp, token, grdLog>>
ghostVars == <<deleted, itemFailed, claimStale, compared>>
refVars == <<refIn, refOut>>
mainVars == <<pass, tickReady, ticksTaken>>
authVars == <<authIn, authOut>>
\* what a step of Reconcile cannot touch
outerVars == <<refVars, mainVars, authVars>>
vars == <<pc, req, walkVars, sdpVars, grdVars, ghostVars, outerVars>>

NoDeploy == [ann |-> NoAnnotation, selectorOK |-> TRUE]
NoPod == [name |-> 0, phase |-> "", nContainers |-> 0, nStatuses |-> 0]
NoContainer == [policy |-> "", image |-> <<>>]
NoImageID == <<"-">>
NoLookup == [called |-> FALSE, err |-> FALSE, digest |-> <<>>]
LookupError == [called |-> TRUE, err |-> TRUE, digest |-> <<>>]
NoResp == [status |-> 0, digest |-> <<>>, challenge |-> <<>>]
NoReq == [kind |-> "none", ok |-> TRUE]
NoRef == [isLatest |-> FALSE, registry |-> <<>>, repo |-> <<>>, tag |-> <<>>]
NoCredentials == [set |-> FALSE, user |-> <<>>, password |-> <<>>]
NoAuthIn == [host |-> <<>>, secrets |-> <<>>]

\* the locals of one iteration of shouldDeletePod's loop go out of scope
ResetContainer ==
    /\ container' = NoContainer
    /\ imageID' = NoImageID
    /\ lookup' = NoLookup
    /\ resp' = NoResp
    /\ token' = ""
    /\ grdLog' = <<>>

ResetWalk ==
    /\ ret = "none" /\ nDeploys = 0 /\ di = 0 /\ deploy = NoDeploy
    /\ pods = <<>> /\ pi = 0 /\ pod = NoPod /\ nRefs = 0 /\ si = 0
    /\ pullSecrets = <<>>
    /\ ci = 0 /\ container = NoContainer /\ imageID = NoImageID
    /\ lookup = NoLookup /\ shouldDelete = FALSE
    /\ resp = NoResp /\ token = "" /\ grdLog = <<>>
    /\ req = NoReq
    /\ deleted = {} /\ itemFailed = FALSE /\ claimStale = FALSE
    /\ compared = "none"

\* main before its loop: no pass yet counted beyond the first, no tick
StartMain == pass = 1 /\ tickReady = FALSE /\ ticksTaken = 0

NoRefRun == refIn = <<>> /\ refOut = NoRef
NoAuthRun == authIn = NoAuthIn /\ authOut = NoCredentials

Init ==
    /\ pc = "Reconcile"
    /\ ResetWalk
    /\ StartMain
    /\ NoRefRun
    /\ NoAuthRun


(***************************************************************************)
(* package controller: Reconcile                                           *)
(***************************************************************************)
\* a variant that compares without regard to case
Enrolled_AnyCase(d) == AnnotationValue(d) \in {"true", "TRUE"}

\* deploy.Annotations[annotationKey] != "true" is the test for skipping
Enrolled(d) == AnnotationValue(d) = "true"

\* pod.Status.Phase != corev1.PodRunning is the test for skipping
IsRunning(p) == p.phase = "Running"

\* clientset.AppsV1().Deployments(namespace).List; an error ends the pass
ListDeployments ==
    /\ pc = "Reconcile"
    /\ \E ok \in BOOLEAN :
        /\ req' = [kind |-> "listDeployments", ok |-> ok]
        /\ IF ok
           THEN /\ \E n \in 0..MaxDeploys : nDeploys' = n
                /\ di' = 1
                /\ pc' = "deployLoop"
                /\ ret' = ret
           ELSE /\ ret' = "error"
                /\ pc' = "done"
                /\ UNCHANGED <<nDeploys, di>>
    /\ UNCHANGED <<deploy, pods, pi, pod, nRefs, si, pullSecrets>>
    /\ UNCHANGED <<sdpVars, grdVars, ghostVars, outerVars>>

\* for _, deploy := range deployments.Items, and the annotation test
DeployLoop ==
    /\ pc = "deployLoop"
    /\ req' = NoReq
    /\ IF di > nDeploys
       THEN /\ ret' = "nil"
            /\ pc' = "done"
            /\ UNCHANGED <<di, deploy>>
       ELSE /\ \E d \in Deployments : deploy' = d
            /\ ret' = ret
            /\ IF Enrolled(deploy')
               THEN pc' = "selector" /\ di' = di
               ELSE pc' = "deployLoop" /\ di' = di + 1
    /\ UNCHANGED <<nDeploys, pods, pi, pod, nRefs, si, pullSecrets>>
    /\ UNCHANGED <<sdpVars, grdVars, ghostVars, outerVars>>

\* metav1.LabelSelectorAsSelector(deploy.Spec.Selector)
ParseSelector ==
    /\ pc = "selector"
    /\ req' = NoReq
    /\ IF deploy.selectorOK
       THEN /\ pc' = "listPods"
            /\ UNCHANGED <<di, itemFailed>>
       ELSE /\ pc' = "deployLoop"
            /\ di' = di + 1
            /\ itemFailed' = TRUE
    /\ UNCHANGED <<ret, nDeploys, deploy, pods, pi, pod, nRefs, si, pullSecrets>>
    /\ UNCHANGED <<sdpVars, grdVars, deleted, claimStale, compared, outerVars>>

\* a variant that gives the pass up when the pods cannot be listed
ListPodsFailed_Return ==
    /\ pc' = "done"
    /\ ret' = "error"
    /\ di' = di

\* log.Printf("  error listing pods: %v", err); continue
ListPodsFailed ==
    /\ pc' = "deployLoop"
    /\ ret' = ret
    /\ di' = di + 1

\* a variant that lists the pods again after a delete
AfterDelete_ListAgain(ok) == pc' = "listPods" /\ pi' = pi /\ di' = di

\* a variant that leaves the pod loop when a delete fails
AfterDelete_BreakOnError(ok) ==
    IF ok THEN pc' = "podLoop" /\ pi' = pi + 1 /\ di' = di
    ELSE pc' = "deployLoop" /\ pi' = pi /\ di' = di + 1

\* if err != nil { log.Printf("  error deleting pod ...") }, and on to the
\* next pod
AfterDelete(ok) == pc' = "podLoop" /\ pi' = pi + 1 /\ di' = di

\* a variant that declares pullSecrets outside the deployment loop
DeclaredPullSecrets_OutsideLoop == pullSecrets

\* var pullSecrets []corev1.Secret, declared in the body of the deployment
\* loop: nil for every deployment
DeclaredPullSecrets == <<>>

\* clientset.CoreV1().Pods(deploy.Namespace).List, then
\* var pullSecrets and the test len(pods.Items) > 0
ListPods ==
    /\ pc = "listPods"
    /\ \E ok \in BOOLEAN :
        /\ req' = [kind |-> "listPods", ok |-> ok]
        /\ IF ok
           THEN /\ \E l \in PodListings : pods' = l
                /\ pullSecrets' = DeclaredPullSecrets
                /\ pi' = 1
                /\ IF Len(pods') > 0
                   THEN /\ pc' = "gatherPullSecrets"
                        /\ \E n \in 0..MaxSecretRefs : nRefs' = n
                        /\ si' = 1
                   ELSE /\ pc' = "podLoop"
                        /\ nRefs' = 0
                        /\ si' = 0
                /\ UNCHANGED <<ret, di, itemFailed>>
           ELSE /\ ListPodsFailed
                /\ itemFailed' = TRUE
                /\ UNCHANGED <<pods, pi, nRefs, si, pullSecrets>>
    /\ UNCHANGED <<nDeploys, deploy, pod>>
    /\ UNCHANGED <<sdpVars, grdVars, deleted, claimStale, compared, outerVars>>

\* a variant that reads the references of the last pod of the listing
SecretsPod_Last == pods[Len(pods)]

\* gatherPullSecrets(ctx, clientset, pods.Items[0]): the pod whose
\* imagePullSecrets are read
SecretsPod == pods[1]

\* gatherPullSecrets(ctx, clientset, pods.Items[0]): one Secrets(...).Get per
\* reference; a secret that cannot be read is left out
gatherPullSecrets ==
    /\ pc = "gatherPullSecrets"
    /\ IF si > nRefs
       THEN /\ pc' = "podLoop"
            /\ req' = NoReq
            /\ si' = 0
            /\ nRefs' = 0
            /\ pullSecrets' = pullSecrets
       ELSE /\ \E ok \in BOOLEAN :
                /\ req' = [kind |-> "getSecret", ok |-> ok]
                /\ IF ok
                   THEN \E secret \in PassSecrets :
                          pullSecrets' = Append(pullSecrets,
                              [deploy |-> di, pod |-> SecretsPod, ref |-> si,
                               secret |-> secret])
                   ELSE pullSecrets' = pullSecrets
            /\ si' = si + 1
            /\ nRefs' = nRefs
            /\ pc' = pc
    /\ UNCHANGED <<ret, nDeploys, di, deploy, pods, pi, pod>>
    /\ UNCHANGED <<sdpVars, grdVars, ghostVars, outerVars>>

\* for _, pod := range pods.Items, and the phase test
PodLoop ==
    /\ pc = "podLoop"
    /\ req' = NoReq
    /\ IF pi > Len(pods)
       THEN /\ pc' = "deployLoop"
            /\ di' = di + 1
            /\ pod' = NoPod
            /\ UNCHANGED <<pi, ci, claimStale>>
       ELSE /\ \E ph \in Phases, nc \in 0..MaxContainers, ns \in 0..MaxContainers :
                pod' = [name |-> pods[pi], phase |-> ph,
                        nContainers |-> IF ph = "Running" THEN nc ELSE 0,
                        nStatuses |-> IF ph = "Running" THEN ns ELSE 0]
            /\ di' = di
            /\ claimStale' = FALSE
            /\ IF IsRunning(pod')
               THEN pc' = "shouldDeletePod" /\ ci' = 1 /\ pi' = pi
               ELSE pc' = "podLoop" /\ ci' = ci /\ pi' = pi + 1
    /\ UNCHANGED <<ret, nDeploys, deploy, pods, nRefs, si, pullSecrets>>
    /\ UNCHANGED <<container, imageID, lookup, shouldDelete>>
    /\ UNCHANGED <<grdVars, deleted, itemFailed, compared, outerVars>>

\* if shouldDeletePod(...) { ... }
PodVerdict ==
    /\ pc = "shouldDeletePodReturned"
    /\ req' = NoReq
    /\ IF shouldDelete
       THEN /\ pc' = "deletePod"
            /\ UNCHANGED <<pi, ci, container, imageID, lookup, shouldDelete, grdVars>>
       ELSE /\ pc' = "podLoop"
            /\ pi' = pi + 1
            /\ ci' = 0
            /\ shouldDelete' = FALSE
            /\ ResetContainer
    /\ UNCHANGED <<ret, nDeploys, di, deploy, pods, pod, nRefs, si, pullSecrets>>
    /\ UNCHANGED <<ghostVars, outerVars>>

\* a variant that addresses the delete to another pod of the cluster
DeleteTarget_Neighbour == (pod.name % MaxPods) + 1

\* Pods(pod.Namespace).Delete(ctx, pod.Name, ...): the pod addressed
DeleteTarget == pod.name

\* the API verb of each request the pass issues
RequestVerb(kind) ==
    CASE kind = "listDeployments" -> "list"
      [] kind = "listPods" -> "list"
      [] kind = "getSecret" -> "get"
      [] kind = "deletePod" -> "delete"
      [] kind = "HEAD" -> "HEAD"
      [] kind = "GET token" -> "GET"
      [] kind = "none" -> "none"

\* clientset.CoreV1().Pods(pod.Namespace).Delete; an error is logged
DeletePod ==
    /\ pc = "deletePod"
    /\ \E ok \in BOOLEAN :
        /\ req' = [kind |-> "deletePod", ok |-> ok]
        /\ itemFailed' = (itemFailed \/ ~ok)
        /\ AfterDelete(ok)
    /\ deleted' = deleted \cup {DeleteTarget}
    /\ ci' = 0
    /\ shouldDelete' = FALSE
    /\ ResetContainer
    /\ UNCHANGED <<ret, nDeploys, deploy, pods, pod, nRefs, si, pullSecrets>>
    /\ UNCHANGED <<claimStale, compared, outerVars>>


(***************************************************************************)
(* package controller: shouldDeletePod                                     *)
(***************************************************************************)
\* The staleness rule of the specification for one container: applicable
\* (pull policy Always, the parsed tag absent or "latest", no digest pin),
\* both digests present, and unequal.  It is what claimStale records; the
\* code does not compute it.
SpecStale(c, remote, hasStatus, id) ==
    /\ c.policy = "Always"
    /\ ~Contains(c.image, <<"@">>)
    /\ imageRef[c.image].tag = latest
    /\ remote # <<>>
    /\ hasStatus
    /\ extractDigest(id) # <<>>
    /\ extractDigest(id) # remote

\* a variant without the pull policy test
Applicable_AnyPolicy(c) == isLatestTag(c.image)

\* container.ImagePullPolicy != corev1.PullAlways and !isLatestTag(...) are
\* the tests for skipping
Applicable(c) == c.policy = "Always" /\ isLatestTag(c.image)

\* i >= len(pod.Status.ContainerStatuses) is the test for skipping
HasStatus(i, p) == i <= p.nStatuses

\* a variant that takes every pair of digests for different
Differs_Always(remote, running) == TRUE

\* remoteDigest != runningDigest
Differs(remote, running) == remote # running

\* for i, container := range pod.Spec.Containers, and the two tests on the
\* container; a container that fails one is passed over without a lookup
shouldDeletePod ==
    /\ pc = "shouldDeletePod"
    /\ req' = NoReq
    /\ IF ci > pod.nContainers
       THEN /\ shouldDelete' = FALSE
            /\ pc' = "shouldDeletePodReturned"
            /\ UNCHANGED <<ci, container, claimStale>>
       ELSE /\ \E c \in Containers : container' = c
            /\ shouldDelete' = shouldDelete
            /\ IF Applicable(container')
               THEN /\ pc' = "GetRemoteDigest"
                    /\ UNCHANGED <<ci, claimStale>>
               ELSE /\ pc' = "shouldDeletePod"
                    /\ ci' = ci + 1
                    \* the registry's digest and the status entry, which
                    \* the code does not read for this container
                    /\ claimStale' \in
                         {claimStale \/ SpecStale(container', remote,
                                                  ci <= pod.nStatuses, id) :
                            remote \in DigestHeaders, id \in ImageIDs}
    /\ UNCHANGED <<imageID, lookup>>
    /\ UNCHANGED <<walkVars, grdVars, deleted, itemFailed, compared, outerVars>>

\* a variant that takes a failed lookup for a changed image
ContainerVerdict_ErrorIsStale(l, hasStatus, id) ==
    IF l.err THEN "stale"
    ELSE IF ~hasStatus THEN "skip"
    ELSE IF extractDigest(id) = <<>> THEN "skip"
    ELSE IF Differs(l.digest, extractDigest(id)) THEN "stale"
    ELSE "fresh"

\* the rest of the loop body, once GetRemoteDigest has returned: the error
\* test, the status bound, the running digest, the comparison
ContainerVerdict(l, hasStatus, id) ==
    IF l.err THEN "skip"
    ELSE IF ~hasStatus THEN "skip"
    ELSE IF extractDigest(id) = <<>> THEN "skip"
    ELSE IF Differs(l.digest, extractDigest(id)) THEN "stale"
    ELSE "fresh"

\* What compared records: whether the running digest of every container
\* compared so far in the pass equals the digest the registry served.  The
\* code does not compute it.
Compared(prev, l, hasStatus, id) ==
    IF l.err \/ ~hasStatus THEN prev
    ELSE IF extractDigest(id) # l.digest THEN "different"
    ELSE IF prev = "none" THEN "equal"
    ELSE prev

\* a variant that notes the stale container and goes on to the next one
StaleFound_KeepGoing ==
    /\ shouldDelete' = TRUE
    /\ pc' = "shouldDeletePod"
    /\ ci' = ci + 1

\* log.Printf("  container %s is stale ..."); return true
StaleFound ==
    /\ shouldDelete' = TRUE
    /\ pc' = "shouldDeletePodReturned"
    /\ ci' = ci

\* ContainerStatuses[ci].ImageID is read only past the error test and the
\* status bound
CompareDigests ==
    /\ pc = "GetRemoteDigestReturned"
    /\ req' = NoReq
    /\ \E id \in IF lookup.err \/ ~HasStatus(ci, pod) THEN {NoImageID} ELSE ImageIDs :
        /\ claimStale' =
              (claimStale \/ SpecStale(container, lookup.digest,
                                       ci <= pod.nStatuses, id))
        /\ compared' = Compared(compared, lookup, HasStatus(ci, pod), id)
        /\ IF ContainerVerdict(lookup, HasStatus(ci, pod), id) = "stale"
           THEN /\ StaleFound
                /\ imageID' = id
                /\ UNCHANGED <<container, lookup, grdVars>>
           ELSE /\ pc' = "shouldDeletePod"
                /\ ci' = ci + 1
                /\ ResetContainer
                /\ UNCHANGED shouldDelete
    /\ UNCHANGED <<walkVars, deleted, itemFailed, outerVars>>

(***************************************************************************)
(* package registry: GetRemoteDigest and fetchBearerToken                  *)
(***************************************************************************)
\* an entry of grdLog: the request, whether it failed in transport, and what
\* the response carried
LogEntry(kind, auth, err, status, digest, tok) ==
    [kind |-> kind, auth |-> auth, err |-> err, status |-> status,
     digest |-> digest, token |-> tok]

\* pullSecrets as setAuth receives it
SecretsOf(gathered) == [k \in 1..Len(gathered) |-> gathered[k].secret]

manifestPath(ref) ==
    <<"/", "v", "2", "/">> \o ref.repo
        \o <<"/", "m", "a", "n", "i", "f", "e", "s", "t", "s", "/">> \o ref.tag

\* parseImageRef, the URL and http.NewRequestWithContext
GetRemoteDigest ==
    /\ pc = "GetRemoteDigest"
    /\ req' = NoReq
    /\ grdLog' = <<>>
    /\ LET ref == imageRef[container.image]
       IN IF UrlParses(ref.registry, manifestPath(ref))
          THEN pc' = "headManifest" /\ lookup' = lookup
          ELSE pc' = "GetRemoteDigestReturned" /\ lookup' = LookupError
    /\ UNCHANGED <<resp, token>>
    /\ UNCHANGED <<ci, container, imageID, shouldDelete>>
    /\ UNCHANGED <<walkVars, ghostVars, outerVars>>

\* resp.StatusCode == http.StatusUnauthorized: where control goes after the
\* first HEAD
AfterHead(r) ==
    IF r.status = 401 THEN "fetchBearerToken" ELSE "checkResponse"

\* setAuth and http.DefaultClient.Do(req) for the first HEAD
HeadManifest ==
    /\ pc = "headManifest"
    /\ \E auth \in setAuth(imageRef[container.image].registry,
                           SecretsOf(pullSecrets)) :
        \/ /\ req' = [kind |-> "HEAD", ok |-> FALSE]
           /\ grdLog' = Append(grdLog,
                               LogEntry("HEAD", auth, TRUE, 0, <<>>, ""))
           /\ lookup' = LookupError
           /\ pc' = "GetRemoteDigestReturned"
           /\ resp' = resp
        \/ /\ req' = [kind |-> "HEAD", ok |-> TRUE]
           /\ \E r \in Responses :
                /\ resp' = r
                /\ grdLog' = Append(grdLog,
                       LogEntry("HEAD", auth, FALSE, r.status, r.digest, ""))
                /\ pc' = AfterHead(r)
           /\ lookup' = lookup
    /\ token' = token
    /\ UNCHANGED <<ci, container, imageID, shouldDelete>>
    /\ UNCHANGED <<walkVars, ghostVars, outerVars>>

\* fetchBearerToken: the realm test, the token URL, the GET and the body
fetchBearerToken ==
    /\ pc = "fetchBearerToken"
    /\ IF challengeRealm[resp.challenge] = <<>>
          \/ ~UrlParses(<<>>, challengeTokenURL[resp.challenge])
       THEN /\ req' = NoReq
            /\ lookup' = LookupError
            /\ pc' = "GetRemoteDigestReturned"
            /\ UNCHANGED <<token, grdLog>>
       ELSE \E auth \in setAuth(imageRef[container.image].registry,
                           SecretsOf(pullSecrets)) :
            \/ /\ req' = [kind |-> "GET token", ok |-> FALSE]
               /\ grdLog' = Append(grdLog,
                      LogEntry("GET token", auth, TRUE, 0, <<>>, ""))
               /\ lookup' = LookupError
               /\ pc' = "GetRemoteDigestReturned"
               /\ token' = token
            \/ \E body \in TokenBodies :
                    /\ req' = [kind |-> "GET token", ok |-> TRUE, body |-> body]
                    /\ grdLog' = Append(grdLog,
                          LogEntry("GET token", auth, FALSE, 0, <<>>,
                                   tokenOf(body)))
                    /\ token' = tokenOf(body)
                    /\ IF tokenOf(body) = ""
                       THEN lookup' = LookupError /\ pc' = "GetRemoteDigestReturned"
                       ELSE lookup' = lookup /\ pc' = "headManifestAuthed"
    /\ resp' = resp
    /\ UNCHANGED <<ci, container, imageID, shouldDelete>>
    /\ UNCHANGED <<walkVars, ghostVars, outerVars>>

\* a variant that negotiates again when the retry is answered 401
AfterAuthedHead_Retry(r) ==
    IF r.status = 401 THEN "fetchBearerToken" ELSE "checkResponse"

\* after the retry there is no further test of StatusUnauthorized: control
\* falls through to the status check
AfterAuthedHead(r) == "checkResponse"

\* the HEAD with Authorization: Bearer <token>
HeadManifestAuthed ==
    /\ pc = "headManifestAuthed"
    /\ \/ /\ req' = [kind |-> "HEAD", ok |-> FALSE]
          /\ grdLog' = Append(grdLog,
                 LogEntry("HEAD", NoCredentials, TRUE, 0, <<>>, token))
          /\ lookup' = LookupError
          /\ pc' = "GetRemoteDigestReturned"
          /\ resp' = resp
       \/ /\ req' = [kind |-> "HEAD", ok |-> TRUE]
          /\ \E r \in Responses :
               /\ resp' = r
               /\ grdLog' = Append(grdLog,
                      LogEntry("HEAD", NoCredentials, FALSE, r.status, r.digest,
                               token))
               /\ pc' = AfterAuthedHead(r)
          /\ lookup' = lookup
    /\ token' = token
    /\ UNCHANGED <<ci, container, imageID, shouldDelete>>
    /\ UNCHANGED <<walkVars, ghostVars, outerVars>>

\* a variant that reads the header whatever the status
DigestOf_AnyStatus(r) ==
    IF r.digest = <<>> THEN LookupError
    ELSE [called |-> TRUE, err |-> FALSE, digest |-> r.digest]

\* resp.StatusCode != http.StatusOK, and the Docker-Content-Digest header
DigestOf(r) ==
    IF r.status # 200 THEN LookupError
    ELSE IF r.digest = <<>> THEN LookupError
    ELSE [called |-> TRUE, err |-> FALSE, digest |-> r.digest]

CheckResponse ==
    /\ pc = "checkResponse"
    /\ req' = NoReq
    /\ lookup' = DigestOf(resp)
    /\ pc' = "GetRemoteDigestReturned"
    /\ UNCHANGED <<grdVars, ci, container, imageID, shouldDelete>>
    /\ UNCHANGED <<walkVars, ghostVars, outerVars>>

Next ==
    \/ ListDeployments
    \/ DeployLoop
    \/ ParseSelector
    \/ ListPods
    \/ gatherPullSecrets
    \/ PodLoop
    \/ shouldDeletePod
    \/ GetRemoteDigest
    \/ HeadManifest
    \/ fetchBearerToken
    \/ HeadManifestAuthed
    \/ CheckResponse
    \/ CompareDigests
    \/ PodVerdict
    \/ DeletePod

Spec == Init /\ [][Next]_vars

\* every orchestrator and registry call returns, so a pass that can take a
\* step takes one
SpecLive == Spec /\ WF_vars(Next)

(***************************************************************************)
(* package main: the ticker and the loop around controller.Reconcile       *)
(***************************************************************************)
\* the runtime's ticker sends on ticker.C, a channel of capacity one; a tick
\* that finds the channel full is dropped
Tick ==
    /\ ~tickReady
    /\ tickReady' = TRUE
    /\ UNCHANGED <<pc, req, walkVars, sdpVars, grdVars, ghostVars>>
    /\ UNCHANGED <<pass, ticksTaken, refVars, authVars>>

\* a variant that does not block on the channel
TickReceived_NoWait == TRUE

\* <-ticker.C blocks until the channel holds a tick
TickReceived == tickReady

\* Reconcile has returned (an error is logged); <-ticker.C, and the next
\* iteration calls Reconcile afresh
AwaitTick ==
    /\ pc = "done"
    /\ pass < MaxPasses
    /\ TickReceived
    /\ ticksTaken' = IF tickReady THEN ticksTaken + 1 ELSE ticksTaken
    /\ tickReady' = FALSE
    /\ pass' = pass + 1
    /\ pc' = "Reconcile"
    /\ req' = NoReq
    /\ ret' = "none" /\ nDeploys' = 0 /\ di' = 0 /\ deploy' = NoDeploy
    /\ pods' = <<>> /\ pi' = 0 /\ pod' = NoPod /\ nRefs' = 0 /\ si' = 0
    /\ pullSecrets' = <<>>
    /\ ci' = 0 /\ shouldDelete' = FALSE
    /\ ResetContainer
    /\ deleted' = {} /\ itemFailed' = FALSE /\ claimStale' = FALSE
    /\ compared' = "none"
    /\ UNCHANGED <<refVars, authVars>>

NextMain ==
    \/ Next
    \/ Tick
    \/ AwaitTick

SpecMain == Init /\ [][NextMain]_vars


(***************************************************************************)
(* Properties of a reconciliation pass (specification Spec).               *)
(***************************************************************************)
RemoteRequests == {"listPods", "getSecret", "HEAD", "GET token", "deletePod"}
RegistryRequests == {"HEAD", "GET token"}
RegistryStages == {"GetRemoteDigest", "headManifest", "fetchBearerToken",
                   "headManifestAuthed", "checkResponse",
                   "GetRemoteDigestReturned"}

(***************************************************************************)
(* C1: a delete request for a pod is issued only if the pod was listed in  *)
(* phase Running under a deployment annotated exactly "true" and, for some *)
(* container index, the remote lookup succeeded, the status entry exists,  *)
(* its ImageID yields a non-empty running digest, and the two digests are  *)
(* unequal; a pod whose lookups all fail is not deleted.                   *)
(***************************************************************************)
C1_DeleteOnlyOnConfirmedMismatch ==
    [][req'.kind = "deletePod" =>
          /\ pod.phase = "Running"
          /\ pod.name \in deleted'
          /\ deploy.ann = "true"
          /\ ci \in 1..pod.nContainers
          /\ lookup.called /\ ~lookup.err /\ lookup.digest # <<>>
          /\ ci <= pod.nStatuses
          /\ imageID \in ImageIDs
          /\ extractDigest(imageID) # <<>>
          /\ extractDigest(imageID) # lookup.digest]_vars

\* a delete request has been issued and answered
C1_DeleteIssued ==
    /\ req = [kind |-> "deletePod", ok |-> TRUE]
    /\ pod.name \in deleted

(***************************************************************************)
(* C2: shouldDeletePod returns true if and only if some container is       *)
(* applicable (pull policy Always, latest or untagged image, no digest     *)
(* pin), the remote lookup returns a digest, its index is within the       *)
(* container statuses, the running digest is non-empty and differs from    *)
(* the remote digest.                                                      *)
(***************************************************************************)
C2_ShouldDeleteIffStale ==
    pc = "shouldDeletePodReturned" => (shouldDelete <=> claimStale)

(***************************************************************************)
(* C4: a deployment is enrolled only when its annotation equals the        *)
(* literal "true"; for any other value, or no annotation, the pass issues  *)
(* no pod list, secret get, registry request or pod delete on its behalf.  *)
(***************************************************************************)
C4_OnlyExactTrueEnrolls ==
    /\ req.kind \in RemoteRequests => deploy.ann = "true"
    /\ pc \notin {"Reconcile", "deployLoop", "done"} => deploy.ann = "true"

\* a deployment annotated "TRUE" has been passed over
C4_UpperCasePassedOver ==
    /\ pc = "deployLoop"
    /\ deploy.ann = "TRUE"
    /\ di > 1
    /\ req = NoReq

(***************************************************************************)
(* C5: the requests of one GetRemoteDigest call are a prefix of            *)
(* [manifest HEAD, token GET, manifest HEAD with the Bearer token]; the    *)
(* token GET follows only a 401 on the first HEAD, the second HEAD only a  *)
(* successful token exchange, there is no third HEAD, a 401 on the second  *)
(* HEAD ends the call with an error, and a transport error ends the call   *)
(* with an error and no further request.                                   *)
(***************************************************************************)
C5_RequestSequence ==
    /\ Len(grdLog) <= 3
    /\ \A k \in 1..Len(grdLog) :
          /\ grdLog[k].kind = <<"HEAD", "GET token", "HEAD">>[k]
          /\ grdLog[k].err =>
                k = Len(grdLog) /\ lookup.err /\ pc = "GetRemoteDigestReturned"
    /\ Len(grdLog) >= 2 => grdLog[1].status = 401
    /\ Len(grdLog) = 3 =>
          /\ grdLog[2].token # ""
          /\ grdLog[3].token = grdLog[2].token
          /\ (~grdLog[3].err /\ grdLog[3].status = 401) =>
                pc \in {"checkResponse", "GetRemoteDigestReturned"}
    /\ (pc = "GetRemoteDigestReturned" /\ Len(grdLog) = 3
            /\ grdLog[3].status = 401) => lookup.err

\* a call that has ended on a 401 answer to the second HEAD
C5_SecondUnauthorized ==
    /\ pc = "GetRemoteDigestReturned"
    /\ Len(grdLog) = 3
    /\ ~grdLog[3].err
    /\ grdLog[3].status = 401
    /\ lookup.err

(***************************************************************************)
(* C6: GetRemoteDigest returns a digest if and only if the final response  *)
(* (the first HEAD, or the retry after a 401) has status 200 and a         *)
(* non-empty Docker-Content-Digest header, and the value returned is that  *)
(* header; anything else yields an error and no digest.                    *)
(***************************************************************************)
C6_DigestIffOKWithHeader ==
    pc = "GetRemoteDigestReturned" =>
        LET n == Len(grdLog)
            final == n > 0 /\ grdLog[n].kind = "HEAD" /\ ~grdLog[n].err
        IN /\ ~lookup.err <=>
                 (final /\ grdLog[n].status = 200 /\ grdLog[n].digest # <<>>)
           /\ ~lookup.err => lookup.digest = grdLog[n].digest
           /\ lookup.err => lookup.digest = <<>>

\* a digest returned by the retry after a 401
C6_DigestFromRetry ==
    /\ pc = "GetRemoteDigestReturned"
    /\ Len(grdLog) = 3
    /\ ~lookup.err
    /\ lookup.digest = digestB

(***************************************************************************)
(* C7: within one pass at most one delete request is issued for any pod,   *)
(* over all enrolled deployments whose selector matches the pod.           *)
(***************************************************************************)
C7_AtMostOneDeletePerPod ==
    [][req'.kind = "deletePod" => pod.name \notin deleted]_vars

(***************************************************************************)
(* C8: a selector that does not parse, a pod listing that fails or a       *)
(* delete that fails stops neither the walk over the other deployments nor *)
(* the walk over the remaining pods: every deployment is visited, every    *)
(* listed pod is visited, every Running pod is evaluated, and every pod    *)
(* found stale receives its delete request.                                *)
(***************************************************************************)
C8_FailuresAreIsolated ==
    /\ [](/\ (pc = "done" /\ ret = "nil") => di = nDeploys + 1
          /\ (/\ pc = "deployLoop"
              /\ di > 1
              /\ deploy.ann = "true"
              /\ deploy.selectorOK
              /\ req.kind # "listPods") => pi = Len(pods) + 1
          /\ shouldDelete => pc \in {"shouldDeletePodReturned", "deletePod"})
    /\ [][/\ (pc = "podLoop" /\ pod'.phase = "Running") =>
                pc' = "shouldDeletePod"
          /\ (pc = "shouldDeletePodReturned" /\ shouldDelete) =>
                pc' = "deletePod"
          /\ pc = "deletePod" =>
                (req'.kind = "deletePod" /\ pod.name \in deleted')
          /\ (req'.kind \in RemoteRequests /\ ~req'.ok) => pc' # "done"]_vars

\* after a failure on some item, a later stale pod receives its delete request
C8_DeleteAfterFailure ==
    /\ itemFailed
    /\ req = [kind |-> "deletePod", ok |-> TRUE]
    /\ pod.name \in deleted

(***************************************************************************)
(* C9: Reconcile returns an error if and only if the listing of the        *)
(* deployments fails, and then it issues no other request; after any other *)
(* failure (selector, pod list, secret get, registry lookup, pod delete)   *)
(* it completes the pass and returns no error.                             *)
(***************************************************************************)
C9_ErrorIffDeploymentListFails ==
    /\ [](/\ pc = "done" <=> ret # "none"
          /\ ret \in {"none", "nil", "error"}
          /\ ret = "error" <=> req = [kind |-> "listDeployments", ok |-> FALSE]
          /\ ret = "error" =>
                /\ nDeploys = 0 /\ di = 0 /\ deploy = NoDeploy
                /\ pods = <<>> /\ pullSecrets = <<>> /\ pod = NoPod
                /\ lookup = NoLookup /\ grdLog = <<>> /\ deleted = {}
                /\ ~itemFailed
          /\ ret = "nil" => di = nDeploys + 1)
    /\ [][(\/ req'.kind \in RemoteRequests /\ ~req'.ok
           \/ lookup'.err /\ ~lookup.err
           \/ itemFailed' /\ ~itemFailed) => (pc' # "done" /\ ret' = "none")]_vars

\* a pass with a failed item has completed and returned no error
C9_CompletedDespiteFailure ==
    /\ pc = "done"
    /\ ret = "nil"
    /\ itemFailed

(***************************************************************************)
(* C10: a registry request (manifest HEAD or token GET) is made for a      *)
(* container only once it is known to be applicable: never for a pull      *)
(* policy other than Always, an image with a tag other than latest, or an  *)
(* image containing '@'; the image reference parser is never given a       *)
(* reference containing '@'.                                               *)
(***************************************************************************)
C10_NoRequestUnlessApplicable ==
    (req.kind \in RegistryRequests \/ pc \in RegistryStages) =>
        /\ container.policy = "Always"
        /\ ~Contains(container.image, <<"@">>)
        /\ parseImageRef(container.image).tag = latest

\* the second container of a pod is being looked up
C10_SecondContainerLookedUp ==
    /\ req = [kind |-> "HEAD", ok |-> TRUE]
    /\ ci = 2
    /\ container.policy = "Always"

(***************************************************************************)
(* The string functions on their own: isLatestTag and parseImageRef applied *)
(* to one image reference.                                                 *)
(***************************************************************************)
RefAlphabet == {"a", ":", "/", "@", "."}
RefPrefixes == UNION {[1..n -> RefAlphabet] : n \in 0..MaxRefLen}
RefSuffixes == {<<>>, latest, <<":">> \o latest, <<":", "v">>, <<"/", "b">>}
RefExamples == {
    localhost \o <<":", "5", "0", "0", "0", "/", "a", "p", "p">>,
    localhost \o <<"/", "a", "p", "p">>,
    <<"n", "g", "i", "n", "x">>,
    <<"n", "g", "i", "n", "x", ":", "1", ".", "2", "5">>,
    <<"m", "y", "u", "s", "e", "r", "/", "m", "y", "i", "m", "a", "g", "e">>,
    <<"g", "h", "c", "r", ".", "i", "o", "/", "o", "r", "g", "/",
      "a", "p", "p", ":", "v", "2">> }
RefImages == {p \o x : p \in RefPrefixes, x \in RefSuffixes} \cup RefExamples

InitRef ==
    /\ pc = "ref"
    /\ ResetWalk
    /\ StartMain
    /\ NoAuthRun
    /\ refIn \in RefImages
    /\ refOut = NoRef

ApplyRef ==
    /\ pc = "ref"
    /\ pc' = "refDone"
    /\ refOut' = [isLatest |-> isLatestTag(refIn),
                  registry |-> parseImageRef(refIn).registry,
                  repo |-> parseImageRef(refIn).repo,
                  tag |-> parseImageRef(refIn).tag]
    /\ UNCHANGED <<req, refIn, walkVars, sdpVars, grdVars, ghostVars>>
    /\ UNCHANGED <<mainVars, authVars>>

NextRef == ApplyRef

SpecRef == InitRef /\ [][NextRef]_vars

ReadOnlyVerbs == {"list", "get", "HEAD", "GET", "none"}
Listed == {pods[k] : k \in 1..Len(pods)}

(***************************************************************************)
(* C12: the only state-changing request of a pass is a pod delete, and it  *)
(* is addressed to a pod that the pod listing of the enrolled deployment   *)
(* at hand returned; every other request is a list, a get or a registry    *)
(* read, so deployments, secrets and other pods are left as they are.      *)
(***************************************************************************)
C12_OnlyListedPodsDeleted ==
    /\ [](RequestVerb(req.kind) \in ReadOnlyVerbs \/ req.kind = "deletePod")
    /\ [][(deleted' # deleted \/ RequestVerb(req'.kind) \notin ReadOnlyVerbs) =>
            /\ req'.kind = "deletePod"
            /\ deploy.ann = "true"
            /\ pi \in 1..Len(pods)
            /\ pod.name = pods[pi]
            /\ deleted' = deleted \cup {pods[pi]}
            /\ deleted' \subseteq deleted \cup Listed
            /\ UNCHANGED <<pods, deploy, pullSecrets>>]_vars

\* of two listed pods only the second has been deleted
C12_OtherPodLeftAlone ==
    /\ req = [kind |-> "deletePod", ok |-> TRUE]
    /\ Len(pods) = 2
    /\ deleted = {pods[2]}

(***************************************************************************)
(* C13: when every call returns, a pass terminates; it visits the listed   *)
(* deployments in turn, each once, and the listed pods of each in turn,    *)
(* each once; after a delete request it goes on to the next pod of the     *)
(* same listing, without listing again and without waiting.                *)
(***************************************************************************)
C13_PassTerminates ==
    /\ <>(pc = "done")
    /\ [](pc = "done" /\ ret = "nil" => di = nDeploys + 1)
    /\ [][/\ di' # di => di' = di + 1
          /\ (di' # di /\ di >= 1 /\ pc = "podLoop") => pi = Len(pods) + 1
          /\ pi' # pi => (pi' = pi + 1 \/ (pc = "listPods" /\ pi' = 1))
          /\ pods' # pods => (pc = "listPods" /\ req'.kind = "listPods")
          /\ nDeploys' # nDeploys => pc = "Reconcile"
          /\ pc = "deletePod" =>
                /\ pc' = "podLoop"
                /\ pi' = pi + 1
                /\ UNCHANGED <<pods, di, deploy>>]_vars

\* a pass that issued a delete request has ended
C13_EndedAfterDelete ==
    /\ pc = "done"
    /\ ret = "nil"
    /\ deleted # {}

(***************************************************************************)
(* C15: a challenge without a realm fails the token exchange with no       *)
(* request to a token endpoint.  With a realm, the result follows from the *)
(* body of the token response alone: the token field when it is not        *)
(* empty, else the access_token field when it is not empty, and a failure  *)
(* when the body is not JSON or both fields are empty.  A failed exchange  *)
(* fails GetRemoteDigest, and no HEAD follows it.                          *)
(***************************************************************************)
C15_TokenExchange ==
    /\ [][(pc = "fetchBearerToken"
             /\ parseWWWAuth(resp.challenge, realmKey) = <<>>) =>
            /\ req'.kind # "GET token"
            /\ grdLog' = grdLog
            /\ lookup'.err
            /\ pc' = "GetRemoteDigestReturned"]_vars
    /\ []((req.kind = "GET token" /\ req.ok) =>
            LET body == req.body
                result == IF ~body.json THEN ""
                          ELSE IF body.token # "" THEN body.token
                          ELSE IF body.access_token # "" THEN body.access_token
                          ELSE ""
            IN /\ parseWWWAuth(resp.challenge, realmKey) # <<>>
               /\ token = result
               /\ IF result = ""
                  THEN lookup.err /\ pc = "GetRemoteDigestReturned"
                  ELSE ~lookup.err /\ pc = "headManifestAuthed")
    /\ [][(pc = "fetchBearerToken" /\ pc' # "headManifestAuthed") =>
            /\ lookup'.err
            /\ pc' = "GetRemoteDigestReturned"]_vars
    /\ [](Len(grdLog) >= 3 =>
            /\ grdLog[2].kind = "GET token"
            /\ ~grdLog[2].err
            /\ grdLog[2].token # ""
            /\ grdLog[3].kind = "HEAD"
            /\ grdLog[3].token = grdLog[2].token)

\* a body with an empty token field and an access_token has been read
C15_AccessTokenUsed ==
    /\ req.kind = "GET token"
    /\ req.ok
    /\ req.body.json
    /\ req.body.token = ""
    /\ req.body.access_token # ""
    /\ token = req.body.access_token
    /\ pc = "headManifestAuthed"

(***************************************************************************)
(* C17: the containers of a pod are evaluated in the order of their        *)
(* declaration, and the evaluation stops at the first stale one: once a    *)
(* container of the pod has been found stale, no registry request is       *)
(* issued for a later container of that pod in the same pass.              *)
(***************************************************************************)
C17_StopsAtFirstStale ==
    /\ []((req.kind \in RegistryRequests \/ pc \in RegistryStages) =>
            ~shouldDelete)
    /\ [][/\ (pc \in {"shouldDeletePod", "GetRemoteDigestReturned"}
                /\ ci' # ci) => ci' = ci + 1
          /\ (container' # container /\ container' # NoContainer) =>
                (pc = "shouldDeletePod" /\ ci' \in {ci, ci + 1})
          /\ (shouldDelete' /\ ~shouldDelete) =>
                /\ pc = "GetRemoteDigestReturned"
                /\ pc' = "shouldDeletePodReturned"
                /\ ci' = ci
          /\ shouldDelete =>
                /\ grdLog' \in {grdLog, <<>>}
                /\ container' \in {container, NoContainer}
                /\ ci' \in {ci, 0}
                /\ pc' \in {"deletePod", "podLoop", "listPods"}]_vars

\* the first of two containers was stale and the pod is about to be deleted
C17_SecondContainerNotReached ==
    /\ pc = "deletePod"
    /\ shouldDelete
    /\ ci = 1
    /\ pod.nContainers = 2

\* where the pass is while it walks the pods of a listing
PodStages ==
    {"podLoop", "shouldDeletePod", "shouldDeletePodReturned", "deletePod",
     "GetRemoteDigestReturned"} \cup RegistryStages

(***************************************************************************)
(* C18: pull secrets are resolved once for an enrolled deployment, from    *)
(* the references of the first pod of its listing, before any phase is     *)
(* looked at; the set stays the same while the pods of the deployment are  *)
(* evaluated; a secret whose get fails is left out and the gathering goes  *)
(* on; a listing without pods causes no secret get.                        *)
(***************************************************************************)
C18_SecretsFromFirstPodOnce ==
    /\ [][req'.kind = "getSecret" =>
            /\ pc = "gatherPullSecrets"
            /\ pc' = "gatherPullSecrets"
            /\ Enrolled(deploy)
            /\ Len(pods) > 0
            /\ pi = 1
            /\ pod = NoPod
            /\ si' = si + 1
            /\ IF req'.ok
               THEN /\ Len(pullSecrets') = Len(pullSecrets) + 1
                    /\ SubSeq(pullSecrets', 1, Len(pullSecrets)) = pullSecrets
                    /\ pullSecrets'[Len(pullSecrets')].pod = pods[1]
                    /\ pullSecrets'[Len(pullSecrets')].ref = si
               ELSE pullSecrets' = pullSecrets]_vars
    /\ [][(pc' = "gatherPullSecrets" /\ pc # "gatherPullSecrets") =>
            /\ pc = "listPods"
            /\ req' = [kind |-> "listPods", ok |-> TRUE]
            /\ Len(pods') > 0
            /\ si' = 1
            /\ pullSecrets' = <<>>]_vars
    /\ [][(pc \in PodStages) => UNCHANGED pullSecrets]_vars
    /\ [](Len(pods) = 0 => req.kind # "getSecret")

\* the first pod of the listing is not running, and a secret was fetched
\* from its references
C18_FirstPodPending ==
    /\ pc = "podLoop"
    /\ Len(pods) = 2
    /\ pod # NoPod
    /\ pod.name = pods[1]
    /\ pod.phase = "Pending"
    /\ Len(pullSecrets) = 1
    /\ pullSecrets[1].pod = pods[1]

\* a gathered secret that was fetched for the deployment at hand, from its
\* first listed pod
FromFirstPod(entry) == entry.deploy = di /\ entry.pod = pods[1]

(***************************************************************************)
(* C20: pull secrets do not leak across deployments: while the pods of a   *)
(* deployment are evaluated, the set given to the registry lookups holds   *)
(* only secrets fetched for that deployment from its first listed pod, and *)
(* is empty when the deployment has no pods; the credentials of a request  *)
(* come from that set.                                                     *)
(***************************************************************************)
C20_SecretsOfThisDeploymentOnly ==
    pc \in PodStages =>
        /\ \A k \in 1..Len(pullSecrets) : FromFirstPod(pullSecrets[k])
        /\ Len(pods) = 0 => pullSecrets = <<>>
        /\ \A k \in 1..Len(grdLog) :
              grdLog[k].auth.set =>
                 grdLog[k].auth \in
                    setAuth(parseImageRef(container.image).registry,
                            SecretsOf(SelectSeq(pullSecrets, FromFirstPod)))

\* the second deployment has no secret, and its lookup goes out without
\* credentials although the first deployment's secret would fit the registry
C20_SecondDeploymentWithoutCredentials ==
    /\ di = 2
    /\ pc = "checkResponse"
    /\ pullSecrets = <<>>
    /\ parseImageRef(container.image).registry = dockerHub
    /\ Len(grdLog) = 1
    /\ ~grdLog[1].auth.set

(***************************************************************************)
(* Properties of the main loop (specification SpecMain).                   *)
(***************************************************************************)

(***************************************************************************)
(* C11: in a pass after the first, as long as every container compared in  *)
(* the pass has a running digest equal to the digest the registry serves,  *)
(* no delete request is issued: nothing carries over from the pass before. *)
(***************************************************************************)
C11_SecondPassDeletesNothing ==
    (pass >= 2 /\ compared # "different") =>
        /\ deleted = {}
        /\ req.kind # "deletePod"
        /\ pc # "deletePod"
        /\ ~shouldDelete

\* a second pass has compared digests, found them equal, and ended
C11_SecondPassAllEqual ==
    /\ pass = 2
    /\ pc = "done"
    /\ compared = "equal"
    /\ deleted = {}

(***************************************************************************)
(* C16: main never has two passes in flight: a pass starts only once       *)
(* Reconcile of the pass before has returned, however long that pass       *)
(* lasted; the first pass starts before any tick is received, and each     *)
(* later pass starts on the receipt of one tick.                           *)
(***************************************************************************)
C16_OnePassAtATime ==
    /\ [](/\ pass = ticksTaken + 1
          /\ pass \in 1..MaxPasses
          /\ (pass = 1 /\ pc = "Reconcile") => ticksTaken = 0)
    /\ [][pass' # pass =>
            /\ pc = "done" /\ ret \in {"nil", "error"}
            /\ pass' = pass + 1
            /\ tickReady /\ ~tickReady'
            /\ ticksTaken' = ticksTaken + 1
            /\ pc' = "Reconcile" /\ ret' = "none"]_vars

\* the second pass is still running when the next tick is already waiting
C16_TickWaitsForRunningPass ==
    /\ pass = 2
    /\ ticksTaken = 1
    /\ tickReady
    /\ pc = "GetRemoteDigestReturned"

(***************************************************************************)
(* setAuth on its own: one registry host and a list of secrets.            *)
(***************************************************************************)
AuthRegistryHosts == {<<"h">>, <<"h", ":", "5">>}
AuthSecretLists == UNION {[1..n -> Secrets] : n \in 0..MaxAuthSecrets}

InitAuth ==
    /\ pc = "auth"
    /\ ResetWalk
    /\ StartMain
    /\ NoRefRun
    /\ authIn \in [host : AuthRegistryHosts, secrets : AuthSecretLists]
    /\ authOut = NoCredentials

ApplyAuth ==
    /\ pc = "auth"
    /\ pc' = "authDone"
    /\ authOut' \in setAuth(authIn.host, authIn.secrets)
    /\ UNCHANGED <<req, authIn, walkVars, sdpVars, grdVars, ghostVars>>
    /\ UNCHANGED <<refVars, mainVars>>

NextAuth == ApplyAuth

SpecAuth == InitAuth /\ [][NextAuth]_vars

\* an entry setAuth can take credentials from, and the credentials
QualifiesFor(e, host) ==
    /\ \E k \in 1..Len(e.host) :
          k + Len(host) - 1 <= Len(e.host)
          /\ SubSeq(e.host, k, k + Len(host) - 1) = host
    /\ e.auth # ""
    /\ e.auth \in DOMAIN Base64Table
    /\ \E k \in 1..Len(Base64Table[e.auth]) : Base64Table[e.auth][k] = ":"

FirstColon(d) == CHOOSE k \in 1..Len(d) :
                    d[k] = ":" /\ \A j \in 1..(k - 1) : d[j] # ":"

Readable(secret) ==
    secret.type = dockerConfigJsonType /\ secret.hasKey /\ secret.json

(***************************************************************************)
(* C19: setAuth never fails: secrets of another type, without the key or   *)
(* with unparseable JSON, and entries with invalid base64 or without ':',  *)
(* are passed over and the search goes on; credentials are set only from   *)
(* an entry whose host key contains the registry host and whose auth is    *)
(* not empty, taken from the first secret that has such an entry; when no  *)
(* entry qualifies the request leaves without credentials.                 *)
(***************************************************************************)
C19_SetAuthSkipsBadInput ==
    pc = "authDone" =>
        LET host == authIn.host
            secrets == authIn.secrets
            Good(k) == {e \in secrets[k].auths :
                          Readable(secrets[k]) /\ QualifiesFor(e, host)}
        IN /\ authOut.set <=> \E k \in 1..Len(secrets) : Good(k) # {}
           /\ ~authOut.set => authOut = NoCredentials
           /\ authOut.set =>
                 \E k \in 1..Len(secrets) :
                    /\ \A j \in 1..(k - 1) : Good(j) = {}
                    /\ \E e \in Good(k) :
                          LET d == Base64Table[e.auth]
                              c == FirstColon(d)
                          IN /\ authOut.user = SubSeq(d, 1, c - 1)
                             /\ authOut.password = SubSeq(d, c + 1, Len(d))

\* the first secret holds only an entry for the host with invalid base64,
\* and the credentials come from the second secret
C19_SkippedToSecondSecret ==
    /\ pc = "authDone"
    /\ Len(authIn.secrets) = 2
    /\ authIn.secrets[1].auths = {[host |-> authIn.host, auth |-> "%"]}
    /\ Readable(authIn.secrets[1])
    /\ authOut = [set |-> TRUE, user |-> <<"u">>, password |-> <<"p", ":", "q">>]

(***************************************************************************)
(* C3: for every image reference without '@', isLatestTag is true exactly  *)
(* when the tag parseImageRef derives is absent or "latest" (the parser    *)
(* yields "latest" for an absent tag), also for host:port/repo without a   *)
(* tag; a reference with '@' is never applicable.                          *)
(***************************************************************************)
C3_IsLatestTagAgreesWithParser ==
    pc = "refDone" =>
        IF Contains(refIn, <<"@">>)
        THEN ~refOut.isLatest
        ELSE refOut.isLatest <=> (refOut.tag = latest)

\* the part of a reference before its first '@'
BeforeDigest(s) ==
    IF \E k \in 1..Len(s) : s[k] = "@"
    THEN SubSeq(s, 1, (CHOOSE k \in 1..Len(s) :
                          s[k] = "@" /\ \A j \in 1..(k - 1) : s[j] # "@") - 1)
    ELSE s

\* the positions of a character in a string
Positions(s, ch) == {k \in 1..Len(s) : s[k] = ch}
Largest(S) == CHOOSE k \in S : \A j \in S : j <= k
Smallest(S) == CHOOSE k \in S : \A j \in S : k <= j

\* the result of a parse, as the three values the code returns
Parsed(registry, repo, tag) ==
    refOut.registry = registry /\ refOut.repo = repo /\ refOut.tag = tag

nginx == <<"n", "g", "i", "n", "x">>
ghcrIo == <<"g", "h", "c", "r", ".", "i", "o">>

(***************************************************************************)
(* C14: parseImageRef follows the reference rules for every input.  The    *)
(* text after the last ':' is the tag only if it holds no '/', and the tag *)
(* is "latest" otherwise; a reference without '/' is library/<name> on     *)
(* registry-1.docker.io; a first segment that holds '.' or ':' or equals   *)
(* "localhost" is the registry host, and otherwise the whole reference is  *)
(* a repository on registry-1.docker.io.  nginx, nginx:1.25,               *)
(* myuser/myimage, ghcr.io/org/app:v2 and localhost:5000/app parse to the  *)
(* values the specification lists.                                         *)
(***************************************************************************)
C14_ParseFollowsReferenceRules ==
    refOut # NoRef =>
        LET s == BeforeDigest(refIn)
            colons == Positions(s, ":")
            after == IF colons = {} THEN <<>>
                     ELSE SubSeq(s, Largest(colons) + 1, Len(s))
            tagged == colons # {} /\ Positions(after, "/") = {}
            name == IF tagged THEN SubSeq(s, 1, Largest(colons) - 1) ELSE s
            slashes == Positions(name, "/")
            first == IF slashes = {} THEN name
                     ELSE SubSeq(name, 1, Smallest(slashes) - 1)
            rest == IF slashes = {} THEN <<>>
                    ELSE SubSeq(name, Smallest(slashes) + 1, Len(name))
        IN /\ refOut.tag = IF tagged THEN after ELSE latest
           /\ slashes = {} =>
                 /\ refOut.registry = dockerHub
                 /\ refOut.repo = libraryPrefix \o name
           /\ slashes # {} =>
                 IF \/ Positions(first, ".") # {}
                    \/ Positions(first, ":") # {}
                    \/ first = localhost
                 THEN refOut.registry = first /\ refOut.repo = rest
                 ELSE refOut.registry = dockerHub /\ refOut.repo = name
           /\ refIn = nginx => Parsed(dockerHub, libraryPrefix \o nginx, latest)
           /\ refIn = nginx \o <<":", "1", ".", "2", "5">> =>
                 Parsed(dockerHub, libraryPrefix \o nginx, <<"1", ".", "2", "5">>)
           /\ refIn = <<"m", "y", "u", "s", "e", "r", "/",
                        "m", "y", "i", "m", "a", "g", "e">> =>
                 Parsed(dockerHub, refIn, latest)
           /\ refIn = ghcrIo \o <<"/", "o", "r", "g", "/", "a", "p", "p",
                                  ":", "v", "2">> =>
                 Parsed(ghcrIo, <<"o", "r", "g", "/", "a", "p", "p">>,
                        <<"v", "2">>)
           /\ refIn = localhost \o <<":", "5", "0", "0", "0", "/", "a", "p", "p">> =>
                 Parsed(localhost \o <<":", "5", "0", "0", "0">>,
                        <<"a", "p", "p">>, latest)

\* localhost:5000/app has been parsed: the ':' belongs to the host
C14_PortIsNotATag ==
    /\ refIn = localhost \o <<":", "5", "0", "0", "0", "/", "a", "p", "p">>
    /\ refOut # NoRef
    /\ refOut.registry = localhost \o <<":", "5", "0", "0", "0">>
    /\ refOut.tag = latest

=============================================================================
